---- MODULE Spec2Model ----
(***************************************************************************)
(* rotation-updater: a Lambda handler that mirrors a VictorOps on-call     *)
(* notification into a Slack user group, plus CRUD handlers over the       *)
(* DynamoDB mapping table(s).                                              *)
(*                                                                         *)
(* The repository holds three revisions of the handler module:            *)
(*   "index"    src/src/index.js              (single rotations table)    *)
(*   "rotation" src/unnamed/part_002:1-356    (single rotations table)    *)
(*   "teamuser" src/unnamed/part_002:358-803  (teams table + users table) *)
(* `variant` says which of them is deployed; it never changes.            *)
(***************************************************************************)
EXTENDS Integers, Sequences, FiniteSets, TLC

VARIABLES
  variant,    \* which revision of the handler module is deployed
  rotations,  \* ROTATIONS_TABLE: victorOpsGroupId -> stored item or NoItem
  teams,      \* TEAMS_TABLE:     victorOpsGroupId -> stored item or NoItem
  users,      \* USERS_TABLE:     victorOpsUserId  -> stored item or NoItem
  slack,      \* Slack: user group id -> its membership (the `users` last set)
  inv,        \* the Lambda invocations: slot -> position, locals and result
  written,    \* history: key -> the objects put under it so far, NoItem for a delete
  applied     \* history: Slack user group id -> the memberships set on it so far

vars == <<variant, rotations, teams, users, slack, inv, written, applied>>

\* ------------------------------------------------------------------ bounds
MaxInvocations == 2
MaxMembers == 3

\* ------------------------------------------------------------- identifiers
Variants == {"index", "rotation", "teamuser"}
GroupIds == {"G1", "G2"}
UserIds == {"U1", "U2"}
SlackGroupIds == {"SG1", "SG2"}
SlackUserIds == {"S1", "S2"}
Slots == 1..MaxInvocations

\* JS null / undefined where a string is expected.
Absent == "<absent>"
\* JS null / undefined where an object is expected (resp.Item of a miss).
NoItem == [null |-> TRUE]

Token == "xoxb"

\* ------------------------------------------------------------ the classes
Member(victorOpsUserId, slackUserId) ==
  [victorOpsUserId |-> victorOpsUserId, slackUserId |-> slackUserId]

Record(victorOpsGroupId, slackUserGroupId, members) ==
  [victorOpsGroupId |-> victorOpsGroupId,
   slackUserGroupId |-> slackUserGroupId,
   members |-> members]

User(victorOpsUserId, slackUserId) ==
  [victorOpsUserId |-> victorOpsUserId, slackUserId |-> slackUserId]

Team(victorOpsGroupId, slackUserGroupId) ==
  [victorOpsGroupId |-> victorOpsGroupId, slackUserGroupId |-> slackUserGroupId]

\* members.map((member) => new Member(member.victorOpsUserId, member.slackUserId))
MapMembers(ms) ==
  [k \in 1..Len(ms) |-> Member(ms[k].victorOpsUserId, ms[k].slackUserId)]

\* Record.getSlackUserId of src/src/index.js: the for loop with break.
RECURSIVE getSlackUserIdLoop(_, _, _)
getSlackUserIdLoop(members, victorOpsUserId, k) ==
  IF k > Len(members) THEN Absent
  ELSE IF members[k].victorOpsUserId = victorOpsUserId
       THEN members[k].slackUserId
       ELSE getSlackUserIdLoop(members, victorOpsUserId, k + 1)

\* Array.prototype.find: the first element satisfying the predicate, if any.
FindMember(members, victorOpsUserId) ==
  LET hits == {k \in 1..Len(members) : members[k].victorOpsUserId = victorOpsUserId}
  IN IF hits = {} THEN NoItem
     ELSE members[CHOOSE k \in hits : \A j \in hits : k <= j]

\* Record.getSlackUserId of part_002: members.find(...)?.slackUserId
getSlackUserIdFind(members, victorOpsUserId) ==
  LET member == FindMember(members, victorOpsUserId)
  IN IF member = NoItem THEN Absent ELSE member.slackUserId

\* A lookup that keeps scanning after a match: the last match wins.
getSlackUserIdLast(v, members, victorOpsUserId) ==
  LET hits == {k \in 1..Len(members) : members[k].victorOpsUserId = victorOpsUserId}
  IN IF hits = {} THEN Absent
     ELSE members[CHOOSE k \in hits : \A j \in hits : k >= j].slackUserId

\* record.getSlackUserId(victorOpsUserId) as the deployed revision computes it.
getSlackUserId(v, members, victorOpsUserId) ==
  IF v = "index" THEN getSlackUserIdLoop(members, victorOpsUserId, 1)
  ELSE getSlackUserIdFind(members, victorOpsUserId)

\* ------------------------------------------------- DynamoDB document client
\* marshall (convertClassInstanceToMap): object -> attribute values.
MarshallString(s) == [S |-> s]

MarshallMember(m) ==
  [M |-> [victorOpsUserId |-> MarshallString(m.victorOpsUserId),
          slackUserId |-> MarshallString(m.slackUserId)]]

MarshallRecord(r) ==
  [victorOpsGroupId |-> MarshallString(r.victorOpsGroupId),
   slackUserGroupId |-> MarshallString(r.slackUserGroupId),
   members |-> [L |-> [k \in 1..Len(r.members) |-> MarshallMember(r.members[k])]]]

MarshallTeam(t) ==
  [victorOpsGroupId |-> MarshallString(t.victorOpsGroupId),
   slackUserGroupId |-> MarshallString(t.slackUserGroupId)]

MarshallUser(u) ==
  [victorOpsUserId |-> MarshallString(u.victorOpsUserId),
   slackUserId |-> MarshallString(u.slackUserId)]

\* unmarshall: attribute values -> plain object (resp.Item).
UnmarshallMember(a) ==
  [victorOpsUserId |-> a.M.victorOpsUserId.S, slackUserId |-> a.M.slackUserId.S]

UnmarshallRecord(item) ==
  [victorOpsGroupId |-> item.victorOpsGroupId.S,
   slackUserGroupId |-> item.slackUserGroupId.S,
   members |-> [k \in 1..Len(item.members.L) |-> UnmarshallMember(item.members.L[k])]]

UnmarshallTeam(item) ==
  [victorOpsGroupId |-> item.victorOpsGroupId.S,
   slackUserGroupId |-> item.slackUserGroupId.S]

UnmarshallUser(item) ==
  [victorOpsUserId |-> item.victorOpsUserId.S, slackUserId |-> item.slackUserId.S]

\* ------------------------------------------------------------ JSON.stringify
Quote(s) == "\"" \o s \o "\""

StringifyMember(m) ==
  "{\"victorOpsUserId\":" \o Quote(m.victorOpsUserId)
    \o ",\"slackUserId\":" \o Quote(m.slackUserId) \o "}"

RECURSIVE StringifyMembers(_, _)
StringifyMembers(ms, k) ==
  IF k > Len(ms) THEN ""
  ELSE (IF k > 1 THEN "," ELSE "") \o StringifyMember(ms[k])
         \o StringifyMembers(ms, k + 1)

StringifyRecord(r) ==
  "{\"victorOpsGroupId\":" \o Quote(r.victorOpsGroupId)
    \o ",\"slackUserGroupId\":" \o Quote(r.slackUserGroupId)
    \o ",\"members\":[" \o StringifyMembers(r.members, 1) \o "]}"

StringifyTeam(t) ==
  "{\"victorOpsGroupId\":" \o Quote(t.victorOpsGroupId)
    \o ",\"slackUserGroupId\":" \o Quote(t.slackUserGroupId) \o "}"

StringifyUser(u) ==
  "{\"victorOpsUserId\":" \o Quote(u.victorOpsUserId)
    \o ",\"slackUserId\":" \o Quote(u.slackUserId) \o "}"

\* JSON.stringify(data) of updateSlackUserGroup: {usergroup, users}.
StringifyData(slackUserGroup, slackUser) ==
  "{\"usergroup\":" \o Quote(slackUserGroup)
    \o ",\"users\":" \o Quote(slackUser) \o "}"

EmptyObjectJson == "{}"

\* --------------------------------------------------------- handler results
NoResult == [kind |-> "pending", body |-> ""]
\* Absence wrapped like every other result: { body: "{}" }.
ReturnEmptyEnvelope == [kind |-> "envelope", body |-> "{}"]
\* `return null`
ReturnNull == [kind |-> "null", body |-> ""]
\* `{}`: an object with no body field
EmptyObject == [kind |-> "object", body |-> ""]
\* `{ body: <JSON string> }`
Envelope(body) == [kind |-> "envelope", body |-> body]
\* the async function rejects: the invocation fails
Thrown == [kind |-> "thrown", body |-> ""]

\* ------------------------------------------------------------------ events
\* Member lists the putRotation events of the main specification carry: the
\* spec's example, and a list with a repeated victorOpsUserId and without U2.
PutMemberLists ==
  { <<Member("U1", "S1"), Member("U2", "S2")>>,
    <<Member("U1", "S2"), Member("U1", "S1")>> }

NoEvent == [operation |-> "none"]

UpdateOnCallEvents ==
  {[operation |-> "updateOnCall", group |-> g, user |-> u] :
     g \in GroupIds, u \in UserIds}

PutRotationEvents ==
  {[operation |-> "putRotation", victorOpsGroupId |-> g,
    slackUserGroupId |-> sg, members |-> ms] :
     g \in GroupIds, sg \in SlackGroupIds, ms \in PutMemberLists}

GetRotationEvents ==
  {[operation |-> "getRotation", victorOpsGroupId |-> g] : g \in GroupIds}

DeleteRotationEvents ==
  {[operation |-> "deleteRotation", victorOpsGroupId |-> g] : g \in GroupIds}

PutTeamEvents ==
  {[operation |-> "putTeam", victorOpsGroupId |-> g, slackUserGroupId |-> sg] :
     g \in GroupIds, sg \in SlackGroupIds}

GetTeamEvents ==
  {[operation |-> "getTeam", victorOpsGroupId |-> g] : g \in GroupIds}

DeleteTeamEvents ==
  {[operation |-> "deleteTeam", victorOpsGroupId |-> g] : g \in GroupIds}

PutUserEvents ==
  {[operation |-> "putUser", victorOpsUserId |-> u, slackUserId |-> s] :
     u \in UserIds, s \in SlackUserIds}

GetUserEvents ==
  {[operation |-> "getUser", victorOpsUserId |-> u] : u \in UserIds}

DeleteUserEvents ==
  {[operation |-> "deleteUser", victorOpsUserId |-> u] : u \in UserIds}

\* The case labels of the switch in `handler`.
Operations(v) ==
  IF v = "teamuser"
  THEN {"updateOnCall", "putTeam", "getTeam", "deleteTeam",
        "putUser", "getUser", "deleteUser"}
  ELSE {"updateOnCall", "putRotation", "getRotation", "deleteRotation"}

\* Operation names some revision knows, plus one that none knows.
OperationNames == Operations("rotation") \cup Operations("teamuser") \cup {"listRotations"}

\* ------------------------------------------------ the external collaborators
\* Secrets Manager: SecretString holds the token, the secret has no
\* SecretString (a binary secret), or the request fails and send() rejects.
SecretOutcomes == {"value", "absent", "error"}

\* What fetch() resolves to: resp.ok, the body text, whether the text is JSON,
\* and whether Slack replaced the group's membership. A 2xx answer may carry a
\* body that is no JSON (a proxy's page, a body that breaks off while read).
SlackReplies ==
  { [ok |-> TRUE, json |-> TRUE, applied |-> TRUE,
     text |-> "{\"ok\":true}"],
    [ok |-> TRUE, json |-> FALSE, applied |-> TRUE,
     text |-> "<html>OK</html>"],
    [ok |-> FALSE, json |-> TRUE, applied |-> FALSE,
     text |-> "{\"ok\":false,\"error\":\"internal_error\"}"],
    [ok |-> FALSE, json |-> FALSE, applied |-> FALSE,
     text |-> "<html>503</html>"] }

\* The acknowledgment DynamoDBDocument.put resolves to, serialized.
PutAckJson == "{\"$metadata\":{\"httpStatusCode\":200}}"

\* --------------------------------------------------------------- the state
\* One invocation of `handler`: where it stands, its event, the locals of
\* handleUpdateOnCall, the requests it sent to Slack, the backend accesses it
\* made (with their outcome), and what it returned.
IdleSlot ==
  [pc |-> "idle", event |-> NoEvent, record |-> NoItem, team |-> NoItem,
   user |-> NoItem, slackUser |-> Absent, secret |-> Absent,
   calls |-> <<>>, trace |-> <<>>, result |-> NoResult]

\* The slot of an invocation that has just received event e.
Started(e) == [IdleSlot EXCEPT !.event = e]

\* The slot of an invocation that returns `result` from slot state s.
Returned(s, result) == [s EXCEPT !.pc = "done", !.result = result]

StoredRotations(g) ==
  {MarshallRecord(Record(g, sg, ms)) : sg \in SlackGroupIds, ms \in PutMemberLists}
StoredTeams(g) == {MarshallTeam(Team(g, sg)) : sg \in SlackGroupIds}
StoredUsers(u) == {MarshallUser(User(u, s)) : s \in SlackUserIds}

Keys == GroupIds \cup UserIds

\* The tables hold whatever earlier invocations put there; Slack's groups have
\* not been touched yet and no invocation is running.
Init ==
  /\ variant \in Variants
  /\ rotations \in [GroupIds -> {NoItem} \cup UNION {StoredRotations(g) : g \in GroupIds}]
  /\ teams \in [GroupIds -> {NoItem} \cup UNION {StoredTeams(g) : g \in GroupIds}]
  /\ users \in [UserIds -> {NoItem} \cup UNION {StoredUsers(u) : u \in UserIds}]
  /\ \A g \in GroupIds :
       /\ rotations[g] # NoItem => variant # "teamuser" /\ rotations[g] \in StoredRotations(g)
       /\ teams[g] # NoItem => variant = "teamuser" /\ teams[g] \in StoredTeams(g)
  /\ \A u \in UserIds :
       users[u] # NoItem => variant = "teamuser" /\ users[u] \in StoredUsers(u)
  /\ slack = [sg \in SlackGroupIds |-> Absent]
  /\ inv = [i \in Slots |-> IdleSlot]
  /\ written = [k \in Keys |-> <<>>]
  /\ applied = [sg \in SlackGroupIds |-> <<>>]

\* No invocation has a result the runtime has yet to hand back.
NoneDone == \A j \in Slots : inv[j].pc # "done"

\* Invocations take the slots in order; they run concurrently all the same.
CanInvoke(i) ==
  /\ NoneDone
  /\ inv[i].pc = "idle"
  /\ \A j \in Slots : j < i => inv[j].pc # "idle"

\* Invocation i is at the await named pc.
At(i, pc) == NoneDone /\ inv[i].pc = pc

\* The last entry of a key's history, NoItem when it has none.
LastWritten(key) ==
  IF written[key] = <<>> THEN NoItem ELSE written[key][Len(written[key])]

\* ------------------------------------------------------------- get helpers
\* A getRotation that falls back to a built-in rotation when nothing is stored.
getRotationOrDefault(item) ==
  IF item = NoItem
  THEN Record("G1", "SG1", <<Member("U1", "S1"), Member("U2", "S2")>>)
  ELSE LET Item == UnmarshallRecord(item)
       IN Record(Item.victorOpsGroupId, Item.slackUserGroupId, MapMembers(Item.members))

\* getRotation: resp.Item == null -> null, else new Record(...Item fields).
getRotation(item) ==
  IF item = NoItem THEN NoItem
  ELSE LET Item == UnmarshallRecord(item)
       IN Record(Item.victorOpsGroupId, Item.slackUserGroupId, MapMembers(Item.members))

\* getTeam: resp.Item == null -> null, else new Team(...Item fields).
getTeam(item) ==
  IF item = NoItem THEN NoItem
  ELSE LET Item == UnmarshallTeam(item)
       IN Team(Item.victorOpsGroupId, Item.slackUserGroupId)

\* getUser: resp.Item == null -> null, else new User(...Item fields).
getUser(item) ==
  IF item = NoItem THEN NoItem
  ELSE LET Item == UnmarshallUser(item)
       IN User(Item.victorOpsUserId, Item.slackUserId)

\* ------------------------------------------------------------ updateOnCall
\* handleUpdateOnCall (index, rotation) up to its first exit or to the await of
\* getSecret: the rotation is read, then the member is looked up. The rotation
\* revision returns null when no member matches; index.js goes on to getSecret.
UpdateOnCallGetRotation(i) ==
  /\ variant \in {"index", "rotation"}
  /\ CanInvoke(i)
  /\ \E e \in UpdateOnCallEvents, fails \in BOOLEAN :
       LET record == getRotation(rotations[e.group])
           slackUser == IF record = NoItem THEN Absent
                        ELSE getSlackUserId(variant, record.members, e.user)
           s0 == Started(e)
       IN inv' = [inv EXCEPT ![i] =
            IF fails
            THEN Returned([s0 EXCEPT !.trace = <<"getRotation:error">>], Thrown)
            ELSE LET s1 == [s0 EXCEPT !.trace =
                              <<IF rotations[e.group] = NoItem
                                THEN "getRotation:miss" ELSE "getRotation:hit">>,
                              !.record = record, !.slackUser = slackUser]
                 IN IF record = NoItem THEN Returned(s1, ReturnNull)
                    ELSE IF variant = "rotation" /\ slackUser = Absent
                    THEN Returned(s1, ReturnNull)
                    ELSE [s1 EXCEPT !.pc = "getSecret"]]
  /\ UNCHANGED <<variant, rotations, teams, users, slack, applied, written>>

\* handleUpdateOnCall (teamuser) up to the await of getUser.
UpdateOnCallGetTeam(i) ==
  /\ variant = "teamuser"
  /\ CanInvoke(i)
  /\ \E e \in UpdateOnCallEvents, fails \in BOOLEAN :
       LET team == getTeam(teams[e.group])
           s0 == Started(e)
       IN inv' = [inv EXCEPT ![i] =
            IF fails
            THEN Returned([s0 EXCEPT !.trace = <<"getTeam:error">>], Thrown)
            ELSE LET s1 == [s0 EXCEPT !.trace =
                              <<IF teams[e.group] = NoItem
                                THEN "getTeam:miss" ELSE "getTeam:hit">>,
                              !.team = team]
                 IN IF team = NoItem THEN Returned(s1, ReturnNull)
                    ELSE [s1 EXCEPT !.pc = "getUser"]]
  /\ UNCHANGED <<variant, rotations, teams, users, slack, applied, written>>

\* handleUpdateOnCall (teamuser): getUser resolves.
UpdateOnCallGetUser(i) ==
  /\ At(i, "getUser")
  /\ \E fails \in BOOLEAN :
       LET user == getUser(users[inv[i].event.user])
           s0 == inv[i]
       IN inv' = [inv EXCEPT ![i] =
            IF fails
            THEN Returned([s0 EXCEPT !.trace = Append(@, "getUser:error")], Thrown)
            ELSE LET s1 == [s0 EXCEPT !.trace = Append(@,
                              IF users[s0.event.user] = NoItem
                              THEN "getUser:miss" ELSE "getUser:hit"),
                              !.user = user]
                 IN IF user = NoItem THEN Returned(s1, ReturnNull)
                    ELSE [s1 EXCEPT !.slackUser = user.slackUserId,
                                    !.pc = "getSecret"]]
  /\ UNCHANGED <<variant, rotations, teams, users, slack, applied, written>>

\* A check that lets every secret through.
SecretMissingNever(secret) == FALSE

\* `secret == null`
SecretMissing(secret) == secret = Absent

\* Reading the rotation a second time for the target group id, at the time of
\* the request, instead of using the record read at the start.
SlackUserGroupReread(s) ==
  IF variant = "teamuser" THEN s.team.slackUserGroupId
  ELSE IF rotations[s.event.group] = NoItem THEN Absent
  ELSE rotations[s.event.group].slackUserGroupId.S

\* Passing the VictorOps group id of the event instead of the Slack one.
SlackUserGroupOfEvent(s) == s.event.group

\* The target group id handleUpdateOnCall passes to updateSlackUserGroup.
SlackUserGroupOf(s) ==
  IF variant = "teamuser" THEN s.team.slackUserGroupId ELSE s.record.slackUserGroupId

\* updateSlackUserGroup: the POST to usergroups.users.update.
Request(slackUserGroup, slackUser, botUserOAuthToken) ==
  [authorization |-> "Bearer " \o botUserOAuthToken,
   usergroup |-> slackUserGroup,
   users |-> slackUser,
   body |-> StringifyData(slackUserGroup, slackUser)]

\* SecretsStore.getSecret resolves (or rejects), and handleUpdateOnCall runs on
\* without another await into updateSlackUserGroup, up to its call of fetch():
\* the request is sent in the same step. index.js checks slackUser only here,
\* after the secret.
UpdateOnCallGetSecret(i) ==
  /\ At(i, "getSecret")
  /\ \E outcome \in SecretOutcomes :
       LET s0 == [inv[i] EXCEPT !.trace = Append(@, "getSecret:" \o outcome)]
           secret == IF outcome = "value" THEN Token ELSE Absent
       IN inv' = [inv EXCEPT ![i] =
            IF outcome = "error" THEN Returned(s0, Thrown)
            ELSE IF variant = "index" /\ s0.slackUser = Absent
            THEN Returned(s0, ReturnNull)
            ELSE IF SecretMissing(secret) THEN Returned(s0, ReturnNull)
            ELSE [s0 EXCEPT !.secret = secret,
                            !.pc = "awaitResponse",
                            !.trace = Append(@, "fetch"),
                            !.calls = Append(@, Request(SlackUserGroupOf(inv[i]),
                                                       inv[i].slackUser, secret))]]
  /\ UNCHANGED <<variant, rotations, teams, users, slack, applied, written>>

\* What updateSlackUserGroup returns for a reply, wrapped by handleUpdateOnCall:
\* part_002 returns nothing unless resp.ok; index.js parses whatever came.
UpdateResult(v, reply) ==
  IF v # "index" /\ ~reply.ok THEN Envelope(EmptyObjectJson)
  ELSE IF reply.json THEN Envelope(reply.text)
  ELSE Thrown

\* A relay that sequences the updates of a group: once a membership has been
\* set, a later call for the same group is answered without being applied.
UpdateOnCallResponseFirstWins(i) ==
  /\ At(i, "awaitResponse")
  /\ LET req == inv[i].calls[Len(inv[i].calls)]
         first == applied[req.usergroup] = <<>>
     IN /\ slack' = IF first THEN [slack EXCEPT ![req.usergroup] = req.users]
                     ELSE slack
        /\ applied' = IF first
                       THEN [applied EXCEPT ![req.usergroup] = Append(@, req.users)]
                       ELSE applied
        /\ inv' = [inv EXCEPT ![i] =
             [@ EXCEPT !.trace = Append(@, "response:ok"), !.pc = "awaitJson"]]
  /\ UNCHANGED <<variant, rotations, teams, users, written>>

\* An updateSlackUserGroup that sends the request again when Slack refuses it.
UpdateOnCallResponseRetry(i) ==
  /\ At(i, "awaitResponse")
  /\ inv' = [inv EXCEPT ![i] =
       [@ EXCEPT !.trace = Append(@, "response:failed"),
                 !.calls = Append(@, @[1])]]
  /\ UNCHANGED <<variant, rotations, teams, users, slack, applied, written>>

\* `await fetch(...)` settles. Slack has answered the request, replacing the
\* membership when it accepts it, or the request failed and fetch rejects,
\* which ends the invocation. Of the answer the code has the status (resp.ok)
\* at this point. part_002 returns at once when the answer is not ok; otherwise
\* the code goes on to await resp.json().
UpdateOnCallResponse(i) ==
  /\ At(i, "awaitResponse")
  /\ LET req == inv[i].calls[Len(inv[i].calls)]
     IN \/ \E reply \in SlackReplies :
             /\ slack' = IF reply.applied
                         THEN [slack EXCEPT ![req.usergroup] = req.users]
                         ELSE slack
             /\ applied' = IF reply.applied
                           THEN [applied EXCEPT ![req.usergroup] = Append(@, req.users)]
                           ELSE applied
             /\ inv' = [inv EXCEPT ![i] =
                  LET s1 == [@ EXCEPT !.trace = Append(@,
                               IF reply.ok THEN "response:ok" ELSE "response:failed")]
                  IN IF variant # "index" /\ ~reply.ok
                     THEN Returned(s1, UpdateResult(variant, reply))
                     ELSE [s1 EXCEPT !.pc = "awaitJson"]]
        \/ /\ UNCHANGED <<slack, applied>>
           /\ inv' = [inv EXCEPT ![i] =
                Returned([@ EXCEPT !.trace = Append(@, "response:none")], Thrown)]
  /\ UNCHANGED <<variant, rotations, teams, users, written>>

\* The status of the answer invocation i got from fetch.
ReplyOk(i) == inv[i].trace[Len(inv[i].trace)] = "response:ok"

\* An updateOnCall that records who is on call: when Slack's answer is in, it
\* writes the rotation back with the on-call member alone.
UpdateOnCallJsonWriteBack(i) ==
  /\ At(i, "awaitJson")
  /\ \E reply \in SlackReplies :
       /\ reply.ok = ReplyOk(i)
       /\ inv' = [inv EXCEPT ![i] = Returned(@, UpdateResult(variant, reply))]
  /\ rotations' =
       IF variant = "teamuser" THEN rotations
       ELSE [rotations EXCEPT ![inv[i].event.group] =
               MarshallRecord(Record(inv[i].event.group,
                                     inv[i].record.slackUserGroupId,
                                     <<Member(inv[i].event.user, inv[i].slackUser)>>))]
  /\ UNCHANGED <<variant, teams, users, slack, applied, written>>

\* `resp.json()` settles: the body of the answer has been read; it parses and
\* handleUpdateOnCall returns it in the envelope, or it does not parse and the
\* invocation rejects.
UpdateOnCallJson(i) ==
  /\ At(i, "awaitJson")
  /\ \E reply \in SlackReplies :
       /\ reply.ok = ReplyOk(i)
       /\ inv' = [inv EXCEPT ![i] = Returned(@, UpdateResult(variant, reply))]
  /\ UNCHANGED <<variant, rotations, teams, users, slack, applied, written>>

\* ------------------------------------------------------------ CRUD handlers
\* A put that answers with an empty envelope in every revision.
PutResultEmptyEnvelope(v) == Envelope(EmptyObjectJson)

\* What the put handlers return once the write is acknowledged: part_002 wraps
\* the acknowledgment, index.js returns a bare {}.
PutResult(v) == IF v = "index" THEN EmptyObject ELSE Envelope(PutAckJson)

\* handleGetRotation's body: part_002 serializes the Record (or {}); index.js
\* reads `.Item` off the Record, which has none, so it always serializes {}.
GetRotationBody(v, record) ==
  IF v = "index" \/ record = NoItem THEN EmptyObjectJson ELSE StringifyRecord(record)

GetTeamBody(team) == IF team = NoItem THEN EmptyObjectJson ELSE StringifyTeam(team)

GetUserBody(user) == IF user = NoItem THEN EmptyObjectJson ELSE StringifyUser(user)

\* A conditional put: it keeps the stored item when there is one.
PutItemKeepOld(old, new) == IF old = NoItem THEN new ELSE old

\* put({TableName, Item}): the item a put leaves under the key is the new one,
\* whatever was there before.
PutItem(old, new) == new

\* A delete that leaves the item in place.
DeleteItemKeep(old) == old

\* delete({TableName, Key}): nothing is left under the key.
DeleteItem(old) == NoItem

\* A putRotation that also pushes the rotation's first member to its Slack
\* user group.
HandlePutRotationSync(i) ==
  /\ variant \in {"index", "rotation"}
  /\ CanInvoke(i)
  /\ \E e \in PutRotationEvents :
       LET record == Record(e.victorOpsGroupId, e.slackUserGroupId,
                            MapMembers(e.members))
           key == e.victorOpsGroupId
       IN /\ rotations' = [rotations EXCEPT ![key] =
               PutItem(@, MarshallRecord(record))]
          /\ written' = [written EXCEPT ![key] = Append(@, record)]
          /\ slack' = [slack EXCEPT ![record.slackUserGroupId] =
               record.members[1].slackUserId]
          /\ applied' = [applied EXCEPT ![record.slackUserGroupId] =
               Append(@, record.members[1].slackUserId)]
          /\ inv' = [inv EXCEPT ![i] =
               Returned([Started(e) EXCEPT !.trace = <<"put:ok">>],
                        PutResult(variant))]
  /\ UNCHANGED <<variant, teams, users>>

HandlePutRotation(i) ==
  /\ variant \in {"index", "rotation"}
  /\ CanInvoke(i)
  /\ \E e \in PutRotationEvents, fails \in BOOLEAN :
       LET record == Record(e.victorOpsGroupId, e.slackUserGroupId,
                            MapMembers(e.members))
           key == e.victorOpsGroupId
       IN IF fails
          THEN /\ inv' = [inv EXCEPT ![i] =
                    Returned([Started(e) EXCEPT !.trace = <<"put:error">>], Thrown)]
               /\ UNCHANGED <<rotations, written>>
          ELSE /\ rotations' = [rotations EXCEPT ![key] =
                    PutItem(@, MarshallRecord(record))]
               /\ written' = [written EXCEPT ![key] = Append(@, record)]
               /\ inv' = [inv EXCEPT ![i] =
                    Returned([Started(e) EXCEPT !.trace = <<"put:ok">>],
                             PutResult(variant))]
  /\ UNCHANGED <<variant, teams, users, slack, applied>>

HandleGetRotation(i) ==
  /\ variant \in {"index", "rotation"}
  /\ CanInvoke(i)
  /\ \E e \in GetRotationEvents, fails \in BOOLEAN :
       LET record == getRotation(rotations[e.victorOpsGroupId])
       IN inv' = [inv EXCEPT ![i] =
            IF fails
            THEN Returned([Started(e) EXCEPT !.trace = <<"get:error">>], Thrown)
            ELSE Returned([Started(e) EXCEPT
                             !.trace = <<IF record = NoItem THEN "get:miss"
                                         ELSE "get:hit">>],
                          Envelope(GetRotationBody(variant, record)))]
  /\ UNCHANGED <<variant, rotations, teams, users, slack, applied, written>>

\* A deleteRotation whose delete is not restricted to the event's key: it
\* clears the rotations of every group.
HandleDeleteRotationAll(i) ==
  /\ variant \in {"index", "rotation"}
  /\ CanInvoke(i)
  /\ \E e \in DeleteRotationEvents :
       /\ rotations' = [g \in GroupIds |-> NoItem]
       /\ written' = [written EXCEPT ![e.victorOpsGroupId] = Append(@, NoItem)]
       /\ inv' = [inv EXCEPT ![i] =
            Returned([Started(e) EXCEPT !.trace = <<"delete:hit">>],
                     Envelope(EmptyObjectJson))]
  /\ UNCHANGED <<variant, teams, users, slack, applied>>

\* delete resolves to an acknowledgment without Item: resp?.Item ?? {} is {}.
HandleDeleteRotation(i) ==
  /\ variant \in {"index", "rotation"}
  /\ CanInvoke(i)
  /\ \E e \in DeleteRotationEvents, fails \in BOOLEAN :
       LET key == e.victorOpsGroupId
       IN IF fails
          THEN /\ inv' = [inv EXCEPT ![i] =
                    Returned([Started(e) EXCEPT !.trace = <<"delete:error">>], Thrown)]
               /\ UNCHANGED <<rotations, written>>
          ELSE /\ rotations' = [rotations EXCEPT ![key] = DeleteItem(@)]
               /\ written' = [written EXCEPT ![key] = Append(@, NoItem)]
               /\ inv' = [inv EXCEPT ![i] =
                    Returned([Started(e) EXCEPT
                                !.trace = <<IF rotations[key] = NoItem
                                            THEN "delete:miss" ELSE "delete:hit">>],
                             Envelope(EmptyObjectJson))]
  /\ UNCHANGED <<variant, teams, users, slack, applied>>

HandlePutTeam(i) ==
  /\ variant = "teamuser"
  /\ CanInvoke(i)
  /\ \E e \in PutTeamEvents, fails \in BOOLEAN :
       LET team == Team(e.victorOpsGroupId, e.slackUserGroupId)
           key == e.victorOpsGroupId
       IN IF fails
          THEN /\ inv' = [inv EXCEPT ![i] =
                    Returned([Started(e) EXCEPT !.trace = <<"put:error">>], Thrown)]
               /\ UNCHANGED <<teams, written>>
          ELSE /\ teams' = [teams EXCEPT ![key] = PutItem(@, MarshallTeam(team))]
               /\ written' = [written EXCEPT ![key] = Append(@, team)]
               /\ inv' = [inv EXCEPT ![i] =
                    Returned([Started(e) EXCEPT !.trace = <<"put:ok">>],
                             PutResult(variant))]
  /\ UNCHANGED <<variant, rotations, users, slack, applied>>

HandleGetTeam(i) ==
  /\ variant = "teamuser"
  /\ CanInvoke(i)
  /\ \E e \in GetTeamEvents, fails \in BOOLEAN :
       LET team == getTeam(teams[e.victorOpsGroupId])
       IN inv' = [inv EXCEPT ![i] =
            IF fails
            THEN Returned([Started(e) EXCEPT !.trace = <<"get:error">>], Thrown)
            ELSE Returned([Started(e) EXCEPT
                             !.trace = <<IF team = NoItem THEN "get:miss"
                                         ELSE "get:hit">>],
                          Envelope(GetTeamBody(team)))]
  /\ UNCHANGED <<variant, rotations, teams, users, slack, applied, written>>

HandleDeleteTeam(i) ==
  /\ variant = "teamuser"
  /\ CanInvoke(i)
  /\ \E e \in DeleteTeamEvents, fails \in BOOLEAN :
       LET key == e.victorOpsGroupId
       IN IF fails
          THEN /\ inv' = [inv EXCEPT ![i] =
                    Returned([Started(e) EXCEPT !.trace = <<"delete:error">>], Thrown)]
               /\ UNCHANGED <<teams, written>>
          ELSE /\ teams' = [teams EXCEPT ![key] = DeleteItem(@)]
               /\ written' = [written EXCEPT ![key] = Append(@, NoItem)]
               /\ inv' = [inv EXCEPT ![i] =
                    Returned([Started(e) EXCEPT
                                !.trace = <<IF teams[key] = NoItem
                                            THEN "delete:miss" ELSE "delete:hit">>],
                             Envelope(EmptyObjectJson))]
  /\ UNCHANGED <<variant, rotations, users, slack, applied>>

HandlePutUser(i) ==
  /\ variant = "teamuser"
  /\ CanInvoke(i)
  /\ \E e \in PutUserEvents, fails \in BOOLEAN :
       LET user == User(e.victorOpsUserId, e.slackUserId)
           key == e.victorOpsUserId
       IN IF fails
          THEN /\ inv' = [inv EXCEPT ![i] =
                    Returned([Started(e) EXCEPT !.trace = <<"put:error">>], Thrown)]
               /\ UNCHANGED <<users, written>>
          ELSE /\ users' = [users EXCEPT ![key] = PutItem(@, MarshallUser(user))]
               /\ written' = [written EXCEPT ![key] = Append(@, user)]
               /\ inv' = [inv EXCEPT ![i] =
                    Returned([Started(e) EXCEPT !.trace = <<"put:ok">>],
                             PutResult(variant))]
  /\ UNCHANGED <<variant, rotations, teams, slack, applied>>

HandleGetUser(i) ==
  /\ variant = "teamuser"
  /\ CanInvoke(i)
  /\ \E e \in GetUserEvents, fails \in BOOLEAN :
       LET user == getUser(users[e.victorOpsUserId])
       IN inv' = [inv EXCEPT ![i] =
            IF fails
            THEN Returned([Started(e) EXCEPT !.trace = <<"get:error">>], Thrown)
            ELSE Returned([Started(e) EXCEPT
                             !.trace = <<IF user = NoItem THEN "get:miss"
                                         ELSE "get:hit">>],
                          Envelope(GetUserBody(user)))]
  /\ UNCHANGED <<variant, rotations, teams, users, slack, applied, written>>

HandleDeleteUser(i) ==
  /\ variant = "teamuser"
  /\ CanInvoke(i)
  /\ \E e \in DeleteUserEvents, fails \in BOOLEAN :
       LET key == e.victorOpsUserId
       IN IF fails
          THEN /\ inv' = [inv EXCEPT ![i] =
                    Returned([Started(e) EXCEPT !.trace = <<"delete:error">>], Thrown)]
               /\ UNCHANGED <<users, written>>
          ELSE /\ users' = [users EXCEPT ![key] = DeleteItem(@)]
               /\ written' = [written EXCEPT ![key] = Append(@, NoItem)]
               /\ inv' = [inv EXCEPT ![i] =
                    Returned([Started(e) EXCEPT
                                !.trace = <<IF users[key] = NoItem
                                            THEN "delete:miss" ELSE "delete:hit">>],
                             Envelope(EmptyObjectJson))]
  /\ UNCHANGED <<variant, rotations, teams, slack, applied>>

\* A dispatcher that rejects an operation it does not know.
HandleUnrecognizedThrows(i) ==
  /\ CanInvoke(i)
  /\ \E op \in OperationNames \ Operations(variant) :
       inv' = [inv EXCEPT ![i] =
         Returned(Started([operation |-> op]), Thrown)]
  /\ UNCHANGED <<variant, rotations, teams, users, slack, applied, written>>

\* The default branch of the switch: resp stays the {} it was initialized to.
HandleUnrecognized(i) ==
  /\ CanInvoke(i)
  /\ \E op \in OperationNames \ Operations(variant) :
       inv' = [inv EXCEPT ![i] =
         Returned(Started([operation |-> op]), EmptyObject)]
  /\ UNCHANGED <<variant, rotations, teams, users, slack, applied, written>>

\* `handler`: the switch on event.operation, one case per handler; an
\* updateOnCall invocation then goes through its awaits.
handler(i) ==
  \/ UpdateOnCallGetRotation(i)
  \/ UpdateOnCallGetTeam(i)
  \/ HandlePutRotation(i)
  \/ HandleGetRotation(i)
  \/ HandleDeleteRotation(i)
  \/ HandlePutTeam(i)
  \/ HandleGetTeam(i)
  \/ HandleDeleteTeam(i)
  \/ HandlePutUser(i)
  \/ HandleGetUser(i)
  \/ HandleDeleteUser(i)
  \/ HandleUnrecognized(i)

\* The runtime hands the result of a finished invocation back to its caller.
\* It does so before anything else happens: the hand-back touches nothing any
\* other invocation reads, so no interleaving of the handlers is lost.
Return(i) ==
  /\ inv[i].pc = "done"
  /\ inv' = [inv EXCEPT ![i] = [IdleSlot EXCEPT !.pc = "returned"]]
  /\ UNCHANGED <<variant, rotations, teams, users, slack, applied, written>>

Next ==
  \E i \in Slots :
    \/ handler(i)
    \/ Return(i)
    \/ UpdateOnCallGetUser(i)
    \/ UpdateOnCallGetSecret(i)
    \/ UpdateOnCallResponse(i)
    \/ UpdateOnCallJson(i)

Spec == Init /\ [][Next]_vars

\* ================================================================ properties
Done(i) == inv[i].pc = "done"
IsUpdateOnCall(i) == inv[i].event.operation = "updateOnCall"

\* An empty result: null, a bare {} or an envelope around {}.
EmptyResult(r) == r = ReturnNull \/ r = EmptyObject \/ r = Envelope("{}")

\* Position k is the first one of members whose victorOpsUserId is uid.
FirstMatchAt(members, uid, k) ==
  /\ k \in 1..Len(members)
  /\ members[k].victorOpsUserId = uid
  /\ \A j \in 1..(k - 1) : members[j].victorOpsUserId # uid

NoMatch(members, uid) ==
  \A k \in 1..Len(members) : members[k].victorOpsUserId # uid

\* The rotation the spec gives as its example.
ExampleRecord ==
  [victorOpsGroupId |-> "G1", slackUserGroupId |-> "SG1",
   members |-> << [victorOpsUserId |-> "U1", slackUserId |-> "S1"],
                  [victorOpsUserId |-> "U2", slackUserId |-> "S2"] >>]

\* The body {usergroup: U, users: T} as it goes over the wire.
WireBody(U, T) == "{\"usergroup\":\"" \o U \o "\",\"users\":\"" \o T \o "\"}"

\* C1: whenever an updateOnCall invocation has sent its request to Slack, the
\* request body is {usergroup: U, users: T} with U the slackUserGroupId of the
\* record read under the event's group and T the slackUserId of the member (the
\* users-table record in the split revision) whose victorOpsUserId is the
\* event's user; the spec's example gives {"usergroup":"SG1","users":"S2"}.
C1_OutboundBody ==
  \A i \in Slots :
    (IsUpdateOnCall(i) /\ inv[i].calls # <<>>) =>
      LET s == inv[i]
          body == s.calls[1].body
      IN /\ Len(s.calls) = 1
         /\ s.calls[1].authorization = "Bearer xoxb"
         /\ variant \in {"index", "rotation"} =>
              /\ s.record.victorOpsGroupId = s.event.group
              /\ MarshallRecord(s.record) \in StoredRotations(s.event.group)
              /\ \E k \in 1..Len(s.record.members) :
                   /\ FirstMatchAt(s.record.members, s.event.user, k)
                   /\ body = WireBody(s.record.slackUserGroupId,
                                      s.record.members[k].slackUserId)
              /\ (s.record = ExampleRecord /\ s.event.user = "U2") =>
                   body = "{\"usergroup\":\"SG1\",\"users\":\"S2\"}"
         /\ variant = "teamuser" =>
              /\ s.team.victorOpsGroupId = s.event.group
              /\ s.user.victorOpsUserId = s.event.user
              /\ body = WireBody(s.team.slackUserGroupId, s.user.slackUserId)

\* C1 witness: the spec's example has been handled and its request sent.
C1_Witness ==
  \E i \in Slots :
    /\ IsUpdateOnCall(i)
    /\ variant = "rotation"
    /\ inv[i].record = ExampleRecord
    /\ inv[i].event = [operation |-> "updateOnCall", group |-> "G1", user |-> "U2"]
    /\ inv[i].calls # <<>>
    /\ inv[i].calls[1].body = "{\"usergroup\":\"SG1\",\"users\":\"S2\"}"

\* C2: an updateOnCall invocation whose group lookup found no record (no
\* rotation, or no team in the split revision) has returned an empty result and
\* has sent nothing to Slack.
C2_NoRecordNoCall ==
  \A i \in Slots :
    (IsUpdateOnCall(i) /\ inv[i].trace # <<>>
       /\ inv[i].trace[1] \in {"getRotation:miss", "getTeam:miss"}) =>
      /\ Done(i)
      /\ EmptyResult(inv[i].result)
      /\ inv[i].calls = <<>>
      /\ Len(inv[i].trace) = 1

\* C2 witness: an updateOnCall for a group without a rotation has returned.
C2_Witness ==
  \E i \in Slots :
    /\ IsUpdateOnCall(i) /\ Done(i)
    /\ inv[i].trace = <<"getRotation:miss">>
    /\ rotations[inv[i].event.group] = NoItem
    /\ inv[i].result = ReturnNull

\* C4: an updateOnCall invocation whose secret retrieval returned no value
\* (after the group and the user resolved) has returned an empty result and has
\* sent nothing to Slack.
C4_NoSecretNoCall ==
  \A i \in Slots :
    (IsUpdateOnCall(i)
       /\ \E k \in 1..Len(inv[i].trace) : inv[i].trace[k] = "getSecret:absent") =>
      /\ Done(i)
      /\ EmptyResult(inv[i].result)
      /\ inv[i].calls = <<>>
      /\ inv[i].trace[Len(inv[i].trace)] = "getSecret:absent"

\* C4 witness: group and user resolved, the secret had no value, the
\* invocation has returned.
C4_Witness ==
  \E i \in Slots :
    /\ IsUpdateOnCall(i) /\ Done(i)
    /\ inv[i].slackUser \in SlackUserIds
    /\ inv[i].trace[Len(inv[i].trace)] = "getSecret:absent"
    /\ inv[i].result = ReturnNull

\* The user of an updateOnCall event resolved to nothing: the rotation was
\* found but holds no member with that id, or (split revision) the team was
\* found and the users table holds no record for the user.
UserUnresolved(i) ==
  /\ IsUpdateOnCall(i)
  /\ Len(inv[i].trace) >= 1
  /\ \/ /\ inv[i].trace[1] = "getRotation:hit"
        /\ NoMatch(inv[i].record.members, inv[i].event.user)
     \/ /\ Len(inv[i].trace) >= 2
        /\ inv[i].trace[1] = "getTeam:hit"
        /\ inv[i].trace[2] = "getUser:miss"

\* C3: an updateOnCall invocation whose group resolved and whose user did not
\* returns an empty result and sends nothing to Slack.
C3_UserMissingNoCall ==
  \A i \in Slots :
    (Done(i) /\ UserUnresolved(i)) =>
      /\ EmptyResult(inv[i].result)
      /\ inv[i].calls = <<>>

\* C5: an updateOnCall invocation to whose request Slack answered with a
\* non-2xx status returns an empty result; Slack's body is not relayed.
C5_FailureNotRelayed ==
  \A i \in Slots :
    (Done(i) /\ IsUpdateOnCall(i)
       /\ inv[i].trace[Len(inv[i].trace)] = "response:failed") =>
      EmptyResult(inv[i].result)

\* ------------------------------------------------------ the member lookup
AllMembers == {Member(u, s) : u \in UserIds, s \in SlackUserIds}

\* Every members sequence a putRotation can store, up to MaxMembers entries.
MemberSeqs == UNION {[1..n -> AllMembers] : n \in 0..MaxMembers}

InitLookup ==
  /\ variant \in {"index", "rotation"}
  /\ \E ms \in MemberSeqs :
       rotations = [g \in GroupIds |->
                      IF g = "G1" THEN MarshallRecord(Record("G1", "SG1", ms))
                      ELSE NoItem]
  /\ teams = [g \in GroupIds |-> NoItem]
  /\ users = [u \in UserIds |-> NoItem]
  /\ slack = [sg \in SlackGroupIds |-> Absent]
  /\ inv = [i \in Slots |-> IdleSlot]
  /\ written = [k \in Keys |-> <<>>]
  /\ applied = [sg \in SlackGroupIds |-> <<>>]

NextLookup == \E i \in Slots : UpdateOnCallGetRotation(i) \/ Return(i)

\* updateOnCall events looking members up in every stored members sequence.
SpecLookup == InitLookup /\ [][NextLookup]_vars

\* C6: the member lookup yields the slackUserId of the first member, in stored
\* order, whose victorOpsUserId is the event's user, also when several members
\* carry that id, and nothing when no member does.
C6_FirstMatchWins ==
  \A i \in Slots :
    (IsUpdateOnCall(i) /\ inv[i].trace # <<>> /\ inv[i].trace[1] = "getRotation:hit") =>
      LET stored == rotations[inv[i].event.group].members.L
          uid == inv[i].event.user
          hits == {k \in 1..Len(stored) : stored[k].M.victorOpsUserId.S = uid}
      IN IF hits = {}
         THEN inv[i].slackUser = Absent
         ELSE \E k \in hits :
                /\ \A j \in hits : k <= j
                /\ inv[i].slackUser = stored[k].M.slackUserId.S

\* C6 witness: two members carry the event's user id with different Slack ids,
\* and the lookup has produced the first one's.
C6_Witness ==
  \E i \in Slots :
    /\ IsUpdateOnCall(i)
    /\ inv[i].trace = <<"getRotation:hit">>
    /\ LET ms == inv[i].record.members
       IN /\ Len(ms) = 3
          /\ ms[1].victorOpsUserId # inv[i].event.user
          /\ ms[2].victorOpsUserId = inv[i].event.user
          /\ ms[3].victorOpsUserId = inv[i].event.user
          /\ ms[2].slackUserId # ms[3].slackUserId
          /\ inv[i].slackUser = ms[2].slackUserId

\* ------------------------------------------------------------- put/get/delete
\* Invocation i was dispatched to a get, a put or a delete handler.
Dispatched(i, ops) ==
  inv[i].event.operation \in (ops \cap Operations(variant))
IsGet(i) == Dispatched(i, {"getRotation", "getTeam", "getUser"})
IsPut(i) == Dispatched(i, {"putRotation", "putTeam", "putUser"})
IsDelete(i) == Dispatched(i, {"deleteRotation", "deleteTeam", "deleteUser"})

\* The primary key an event names, and the table it addresses.
KeyOf(e) ==
  IF e.operation \in {"putUser", "getUser", "deleteUser"}
  THEN e.victorOpsUserId ELSE e.victorOpsGroupId

TableOf(e) ==
  IF e.operation \in {"putUser", "getUser", "deleteUser"} THEN users
  ELSE IF e.operation \in {"putTeam", "getTeam", "deleteTeam"} THEN teams
  ELSE rotations

\* The JSON text of a record, a team or a user, field by field.
JsonOfMember(m) ==
  "{\"victorOpsUserId\":\"" \o m.victorOpsUserId
     \o "\",\"slackUserId\":\"" \o m.slackUserId \o "\"}"

JsonOfMembers(ms) ==
  IF Len(ms) = 0 THEN ""
  ELSE IF Len(ms) = 1 THEN JsonOfMember(ms[1])
  ELSE IF Len(ms) = 2 THEN JsonOfMember(ms[1]) \o "," \o JsonOfMember(ms[2])
  ELSE JsonOfMember(ms[1]) \o "," \o JsonOfMember(ms[2]) \o "," \o JsonOfMember(ms[3])

JsonOf(op, x) ==
  IF op = "getRotation"
  THEN "{\"victorOpsGroupId\":\"" \o x.victorOpsGroupId
         \o "\",\"slackUserGroupId\":\"" \o x.slackUserGroupId
         \o "\",\"members\":[" \o JsonOfMembers(x.members) \o "]}"
  ELSE IF op = "getTeam"
  THEN "{\"victorOpsGroupId\":\"" \o x.victorOpsGroupId
         \o "\",\"slackUserGroupId\":\"" \o x.slackUserGroupId \o "\"}"
  ELSE "{\"victorOpsUserId\":\"" \o x.victorOpsUserId
         \o "\",\"slackUserId\":\"" \o x.slackUserId \o "\"}"

\* C7: a get that follows a put on its key, with no write or delete on the key
\* in between, responds with the JSON serialization of the record that was put.
C7_PutThenGet ==
  \A i \in Slots :
    (Done(i) /\ IsGet(i) /\ inv[i].trace # <<"get:error">>
       /\ LastWritten(KeyOf(inv[i].event)) # NoItem) =>
      inv[i].result =
        Envelope(JsonOf(inv[i].event.operation, LastWritten(KeyOf(inv[i].event))))

\* The item the document client stores for a put event, attribute by attribute.
ItemOf(e) ==
  IF e.operation = "putRotation"
  THEN [victorOpsGroupId |-> [S |-> e.victorOpsGroupId],
        slackUserGroupId |-> [S |-> e.slackUserGroupId],
        members |-> [L |-> [k \in 1..Len(e.members) |->
           [M |-> [victorOpsUserId |-> [S |-> e.members[k].victorOpsUserId],
                   slackUserId |-> [S |-> e.members[k].slackUserId]]]]]]
  ELSE IF e.operation = "putTeam"
  THEN [victorOpsGroupId |-> [S |-> e.victorOpsGroupId],
        slackUserGroupId |-> [S |-> e.slackUserGroupId]]
  ELSE [victorOpsUserId |-> [S |-> e.victorOpsUserId],
        slackUserId |-> [S |-> e.slackUserId]]

\* C8: once a put has been acknowledged, the item under its key is exactly the
\* one built from that put's event, whatever an earlier put had stored there:
\* nothing of the earlier record is kept, and of two puts the later one stands.
C8_PutReplaces ==
  \A i \in Slots :
    (Done(i) /\ IsPut(i) /\ inv[i].trace = <<"put:ok">>) =>
      TableOf(inv[i].event)[KeyOf(inv[i].event)] = ItemOf(inv[i].event)

\* C8 witness: a second put on a key has been acknowledged, with a record that
\* differs from the one the first put stored.
C8_Witness ==
  \E i \in Slots :
    /\ Done(i) /\ IsPut(i) /\ inv[i].trace = <<"put:ok">>
    /\ LET h == written[KeyOf(inv[i].event)]
       IN /\ Len(h) >= 2
          /\ h[Len(h) - 1] # NoItem
          /\ h[Len(h) - 1] # h[Len(h)]
          /\ TableOf(inv[i].event)[KeyOf(inv[i].event)] = ItemOf(inv[i].event)

\* C9: a delete the store acknowledges responds with an empty object, whether
\* or not the key held an item, and leaves nothing under the key; a get on a
\* key whose last write was a delete responds with an empty object.
C9_DeleteThenGet ==
  \A i \in Slots :
    /\ (Done(i) /\ IsDelete(i) /\ inv[i].trace # <<"delete:error">>) =>
         /\ inv[i].result = Envelope("{}")
         /\ TableOf(inv[i].event)[KeyOf(inv[i].event)] = NoItem
    /\ (Done(i) /\ IsGet(i) /\ inv[i].trace # <<"get:error">>
          /\ written[KeyOf(inv[i].event)] # <<>>
          /\ LastWritten(KeyOf(inv[i].event)) = NoItem) =>
         inv[i].result = Envelope("{}")

\* C9 witness: a get has answered on a key whose last write was a delete.
C9_Witness ==
  \E i \in Slots :
    /\ Done(i) /\ IsGet(i) /\ inv[i].trace = <<"get:miss">>
    /\ written[KeyOf(inv[i].event)] # <<>>
    /\ LastWritten(KeyOf(inv[i].event)) = NoItem
    /\ inv[i].result = Envelope("{}")

\* C9 witness, first half: a delete on a key that held nothing has answered.
C9_DeleteMissing ==
  \E i \in Slots :
    /\ Done(i) /\ IsDelete(i) /\ inv[i].trace = <<"delete:miss">>
    /\ inv[i].result = Envelope("{}")

\* ---------------------------------------------------------- the result shapes
\* The JSON texts a get can answer with: {} or the record stored under the key.
GetBodies(e) ==
  LET item == TableOf(e)[KeyOf(e)]
  IN {"{}"} \cup
     (IF item = NoItem THEN {}
      ELSE {JsonOf(e.operation,
                   IF e.operation = "getRotation" THEN UnmarshallRecord(item)
                   ELSE IF e.operation = "getTeam" THEN UnmarshallTeam(item)
                   ELSE UnmarshallUser(item))})

\* The JSON texts Slack answers with.
SlackBodies == {"{\"ok\":true}", "{\"ok\":false,\"error\":\"internal_error\"}"}

\* Invocation i went all the way to Slack and got an answer.
Answered(i) ==
  /\ IsUpdateOnCall(i)
  /\ inv[i].trace # <<>>
  /\ inv[i].trace[Len(inv[i].trace)] \in {"response:ok", "response:failed"}

\* C10 as the spec has it, for the revision it cites (part_002:1-356): every
\* invocation that returns, returns an envelope { body: <JSON string> } whose
\* inner JSON is the requested record, an empty object or Slack's response;
\* absence is an empty object inside the envelope.
C10_AlwaysEnvelope ==
  \A i \in Slots :
    (variant = "rotation" /\ Done(i) /\ inv[i].result.kind # "thrown") =>
      /\ inv[i].result.kind = "envelope"
      /\ \/ inv[i].result.body = "{}"
         \/ inv[i].result.body \in SlackBodies
         \/ IsGet(i) /\ inv[i].result.body \in GetBodies(inv[i].event)

\* C10 amended: an invocation that returns, returns an envelope around the
\* record, {} or Slack's response from get, delete and an updateOnCall that
\* Slack answered, and around the store's acknowledgment from the part_002 put
\* handlers; but updateOnCall returns a bare null when the group, the user or
\* the secret is missing, and an unrecognized operation and index.js's
\* putRotation return a bare {} with no body.
C10_ResultShapes ==
  \A i \in Slots :
    (Done(i) /\ inv[i].result.kind # "thrown") =>
      LET r == inv[i].result
          op == inv[i].event.operation
      IN /\ op \notin Operations(variant) => (r.kind = "object" /\ r.body = "")
         /\ (IsUpdateOnCall(i) /\ ~Answered(i)) => (r.kind = "null" /\ r.body = "")
         /\ (IsUpdateOnCall(i) /\ Answered(i)) =>
              (r.kind = "envelope" /\ r.body \in {"{}"} \cup SlackBodies)
         /\ IsPut(i) =>
              IF variant = "index" THEN r.kind = "object" /\ r.body = ""
              ELSE r.kind = "envelope"
                   /\ r.body = "{\"$metadata\":{\"httpStatusCode\":200}}"
         /\ IsGet(i) => (r.kind = "envelope" /\ r.body \in GetBodies(inv[i].event))
         /\ IsDelete(i) => (r.kind = "envelope" /\ r.body = "{}")

\* C10 witness: an updateOnCall whose user matched no member of the rotation
\* has returned a bare null.
C10_Witness ==
  \E i \in Slots :
    /\ Done(i) /\ IsUpdateOnCall(i)
    /\ variant = "rotation"
    /\ inv[i].trace = <<"getRotation:hit">>
    /\ inv[i].slackUser = Absent
    /\ inv[i].result.kind = "null"

\* ------------------------------------------------------------- the dispatcher
\* The backend access a handler starts with, by the name of its operation.
FirstAccess(v, op) ==
  IF op = "updateOnCall"
  THEN (IF v = "teamuser"
        THEN {"getTeam:hit", "getTeam:miss", "getTeam:error"}
        ELSE {"getRotation:hit", "getRotation:miss", "getRotation:error"})
  ELSE IF op \in {"putRotation", "putTeam", "putUser"} THEN {"put:ok", "put:error"}
  ELSE IF op \in {"getRotation", "getTeam", "getUser"}
  THEN {"get:hit", "get:miss", "get:error"}
  ELSE {"delete:hit", "delete:miss", "delete:error"}

\* C11: an invocation whose operation is none of the names the deployed
\* revision's switch lists has run no handler: it made no backend access (no
\* store read or write, no secret read, no request to Slack) and returned an
\* empty object without failing. An invocation with a listed name ran the
\* handler of that name: its first backend access is that handler's, and a get
\* answers from the table and key its name and event address.
C11_Dispatch ==
  \A i \in Slots :
    Done(i) =>
      LET s == inv[i]
          op == s.event.operation
      IN /\ op \notin Operations(variant) =>
              /\ s.result.kind = "object" /\ s.result.body = ""
              /\ s.trace = <<>>
              /\ s.calls = <<>>
         /\ op \in Operations(variant) =>
              /\ s.trace # <<>>
              /\ s.trace[1] \in FirstAccess(variant, op)
              /\ (op # "updateOnCall") => (Len(s.trace) = 1 /\ s.calls = <<>>)
              /\ (IsGet(i) /\ s.result.kind # "thrown") =>
                   s.result.body \in GetBodies(s.event)

\* C11 witness: the split revision was handed "getRotation", a name only the
\* combined revisions know, and returned an empty object having touched nothing.
C11_Witness ==
  \E i \in Slots :
    /\ Done(i)
    /\ variant = "teamuser"
    /\ inv[i].event.operation = "getRotation"
    /\ inv[i].trace = <<>>
    /\ inv[i].calls = <<>>
    /\ inv[i].result = EmptyObject

\* ------------------------------------------------------------ failing backends
\* The last backend access of invocation i failed: the store or the secret
\* store rejected the request.
BackendFailed(i) ==
  /\ inv[i].trace # <<>>
  /\ inv[i].trace[Len(inv[i].trace)] \in
       {"getRotation:error", "getTeam:error", "getUser:error", "getSecret:error",
        "put:error", "get:error", "delete:error"}

\* C12: no invocation ends in a thrown error; an invocation whose secret
\* retrieval or whose store get, put or delete failed returns an empty result,
\* as it does for a not-found.
C12_NeverThrows ==
  \A i \in Slots :
    Done(i) =>
      /\ inv[i].result.kind # "thrown"
      /\ BackendFailed(i) => EmptyResult(inv[i].result)

\* ------------------------------------------------------- the answer of a put
\* C13 as the spec has it: a put the store acknowledged responds with an empty
\* body; the store's acknowledgment is not echoed to the caller.
C13_PutEmptyBody ==
  \A i \in Slots :
    (Done(i) /\ IsPut(i) /\ inv[i].trace = <<"put:ok">>) =>
      EmptyResult(inv[i].result)

\* C13 amended: a put the store acknowledged never responds with the record;
\* index.js's putRotation returns a bare empty object (nothing is echoed),
\* while putRotation, putTeam and putUser of part_002 return an envelope whose
\* body is the store's write acknowledgment, serialized.
C13_PutResponse ==
  \A i \in Slots :
    (Done(i) /\ IsPut(i) /\ inv[i].trace = <<"put:ok">>) =>
      IF variant = "index"
      THEN inv[i].result.kind = "object" /\ inv[i].result.body = ""
      ELSE /\ inv[i].result.kind = "envelope"
           /\ inv[i].result.body = "{\"$metadata\":{\"httpStatusCode\":200}}"

\* C13 witness: putUser has stored its record and answered with the
\* acknowledgment in the envelope.
C13_Witness ==
  \E i \in Slots :
    /\ Done(i)
    /\ inv[i].event.operation = "putUser"
    /\ inv[i].trace = <<"put:ok">>
    /\ users[inv[i].event.victorOpsUserId] = ItemOf(inv[i].event)
    /\ inv[i].result.kind = "envelope"
    /\ inv[i].result.body # "{}"

\* ------------------------------------------------------------ one POST, once
\* The group, the user and the secret of invocation i all resolved.
Resolved(i) ==
  /\ inv[i].slackUser # Absent
  /\ \E k \in 1..Len(inv[i].trace) : inv[i].trace[k] = "getSecret:value"

\* Slack's answer to invocation i came in, or its request failed.
Responded(i) ==
  /\ inv[i].trace # <<>>
  /\ inv[i].trace[Len(inv[i].trace)] \in
       {"response:ok", "response:failed", "response:none"}

\* C14: an updateOnCall invocation never has more than one request to Slack
\* behind it; once it has returned it has sent exactly one if its group, user
\* and secret all resolved and none otherwise; and whatever Slack answered
\* (success, a non-2xx status, no answer at all) the request was sent once.
C14_SinglePost ==
  \A i \in Slots :
    IsUpdateOnCall(i) =>
      /\ Len(inv[i].calls) <= 1
      /\ Done(i) => (Len(inv[i].calls) = 1 <=> Resolved(i))
      /\ Responded(i) =>
           /\ Len(inv[i].calls) = 1
           /\ Done(i) \/ inv[i].pc = "awaitJson"
           /\ Len(SelectSeq(inv[i].trace, LAMBDA t : t = "fetch")) = 1

\* C14 witness: Slack refused the request with a non-2xx status and the
\* invocation returned with that one request sent.
C14_Witness ==
  \E i \in Slots :
    /\ Done(i) /\ IsUpdateOnCall(i) /\ Resolved(i)
    /\ inv[i].trace[Len(inv[i].trace)] = "response:failed"
    /\ Len(inv[i].calls) = 1

\* ------------------------------------------------------- racing updateOnCalls
\* The last element of a history, Absent when it has none.
LastApplied(sg) ==
  IF applied[sg] = <<>> THEN Absent ELSE applied[sg][Len(applied[sg])]

\* The Slack user group invocation i resolved from what it read.
TargetGroup(i) ==
  IF variant = "teamuser" THEN inv[i].team.slackUserGroupId
  ELSE inv[i].record.slackUserGroupId

\* C15: the membership of a Slack group is what the last call Slack accepted
\* for it carried. In the step in which the fetch of an updateOnCall resolves
\* with success the group's membership becomes the one member id of that
\* request, whatever a call that completed earlier (of an invocation that
\* arrived before or after it) had set; every accepted call is applied in
\* completion order, none is held back, dropped or merged.
C15_LastCompletedWins ==
  [][/\ \A sg \in SlackGroupIds :
          slack'[sg] = IF applied'[sg] = <<>> THEN Absent
                       ELSE applied'[sg][Len(applied'[sg])]
     /\ \A i \in Slots :
          (inv[i].pc = "awaitResponse"
             /\ inv'[i].trace[Len(inv'[i].trace)] = "response:ok") =>
            /\ slack'[TargetGroup(i)] = inv[i].slackUser
            /\ applied'[TargetGroup(i)]
                 = Append(applied[TargetGroup(i)], inv[i].slackUser)
            /\ \A sg \in SlackGroupIds \ {TargetGroup(i)} :
                 slack'[sg] = slack[sg] /\ applied'[sg] = applied[sg]]_vars

\* C15 witness: two updateOnCall invocations for G1, reading the same rotation
\* and naming different users, both had their request accepted; the call of
\* the one that arrived second completed first, and the Slack group holds the
\* member id of the first-arrived one, whose call completed last.
C15_Witness ==
  /\ variant = "rotation"
  /\ \A i \in {1, 2} :
       /\ IsUpdateOnCall(i)
       /\ inv[i].event.group = "G1"
       /\ inv[i].pc = "awaitJson"
       /\ inv[i].trace[Len(inv[i].trace)] = "response:ok"
  /\ inv[1].record = inv[2].record
  /\ inv[1].slackUser # inv[2].slackUser
  /\ applied[inv[1].record.slackUserGroupId] = <<inv[2].slackUser, inv[1].slackUser>>
  /\ slack[inv[1].record.slackUserGroupId] = inv[1].slackUser

\* ------------------------------------------------- independent invocations
\* The slackUserId an updateOnCall for event e resolves from the records stored
\* under e's own identifiers, Absent when it resolves none.
OwnSlackUser(e) ==
  IF variant = "teamuser"
  THEN (IF users[e.user] = NoItem THEN Absent ELSE users[e.user].slackUserId.S)
  ELSE IF rotations[e.group] = NoItem THEN Absent
  ELSE LET ms == rotations[e.group].members.L
           hits == {k \in 1..Len(ms) : ms[k].M.victorOpsUserId.S = e.user}
       IN IF hits = {} THEN Absent
          ELSE ms[CHOOSE k \in hits : \A j \in hits : k <= j].M.slackUserId.S

\* The item stored under the group of e.
OwnGroupItem(e) == IF variant = "teamuser" THEN teams[e.group] ELSE rotations[e.group]

\* (trace, calls, result) is an outcome of an updateOnCall for e that runs
\* alone against the records now stored under e's identifiers.
AloneOutcome(e, trace, calls, result) ==
  LET g == OwnGroupItem(e)
      su == OwnSlackUser(e)
      first == IF variant = "teamuser" THEN "getTeam" ELSE "getRotation"
      hit == IF variant = "teamuser" THEN <<"getTeam:hit", "getUser:hit">>
             ELSE <<"getRotation:hit">>
      toSecret == g # NoItem /\ (variant = "index" \/ su # Absent)
      req == [authorization |-> "Bearer xoxb",
              usergroup |-> g.slackUserGroupId.S,
              users |-> su,
              body |-> WireBody(g.slackUserGroupId.S, su)]
  IN \/ trace = <<first \o ":error">> /\ calls = <<>> /\ result = Thrown
     \/ g = NoItem /\ trace = <<first \o ":miss">> /\ calls = <<>>
          /\ result = ReturnNull
     \/ g # NoItem /\ variant = "teamuser" /\ calls = <<>>
          /\ \/ trace = <<"getTeam:hit", "getUser:error">> /\ result = Thrown
             \/ su = Absent /\ trace = <<"getTeam:hit", "getUser:miss">>
                  /\ result = ReturnNull
     \/ g # NoItem /\ variant = "rotation" /\ su = Absent
          /\ trace = hit /\ calls = <<>> /\ result = ReturnNull
     \/ toSecret /\ calls = <<>>
          /\ \/ trace = hit \o <<"getSecret:error">> /\ result = Thrown
             \/ trace = hit \o <<"getSecret:absent">> /\ result = ReturnNull
             \/ su = Absent /\ trace = hit \o <<"getSecret:value">>
                  /\ result = ReturnNull
     \/ toSecret /\ su # Absent /\ calls = <<req>>
          /\ \/ trace = hit \o <<"getSecret:value", "fetch", "response:ok">>
                  /\ result \in {Envelope("{\"ok\":true}"), Thrown}
             \/ trace = hit \o <<"getSecret:value", "fetch", "response:failed">>
                  /\ IF variant = "index"
                     THEN result \in
                            {Envelope("{\"ok\":false,\"error\":\"internal_error\"}"),
                             Thrown}
                     ELSE result = Envelope("{}")
             \/ trace = hit \o <<"getSecret:value", "fetch", "response:none">>
                  /\ result = Thrown

\* No other invocation has written or deleted a record under the identifiers
\* of invocation i's updateOnCall event.
Undisturbed(i) ==
  /\ written[inv[i].event.group] = <<>>
  /\ variant = "teamuser" => written[inv[i].event.user] = <<>>

\* What a get answers from the item now stored under its own key.
OwnGetResult(e) ==
  LET item == TableOf(e)[KeyOf(e)]
  IN IF item = NoItem \/ variant = "index" THEN Envelope("{}")
     ELSE Envelope(JsonOf(e.operation,
                          IF e.operation = "getRotation" THEN UnmarshallRecord(item)
                          ELSE IF e.operation = "getTeam" THEN UnmarshallTeam(item)
                          ELSE UnmarshallUser(item)))

\* Every invocation that has finished did what it does when run alone against
\* the records under its own identifiers.
AsAlone ==
  \A i \in Slots :
    Done(i) =>
      /\ (IsUpdateOnCall(i) /\ Undisturbed(i)) =>
           AloneOutcome(inv[i].event, inv[i].trace, inv[i].calls, inv[i].result)
      /\ (IsGet(i) /\ inv[i].result # Thrown) => inv[i].result = OwnGetResult(inv[i].event)
      /\ (IsDelete(i) /\ inv[i].result # Thrown) =>
           /\ inv[i].result = Envelope("{}")
           /\ TableOf(inv[i].event)[KeyOf(inv[i].event)] = NoItem
      /\ (IsPut(i) /\ inv[i].result # Thrown) =>
           TableOf(inv[i].event)[KeyOf(inv[i].event)] = ItemOf(inv[i].event)

\* Invocation i starts in this step with one of the operations ops on key k.
StartsOn(i, ops, k) ==
  /\ inv[i].pc = "idle" /\ inv'[i].pc # "idle"
  /\ inv'[i].event.operation \in ops
  /\ KeyOf(inv'[i].event) = k

\* A step changes one invocation only, and a record only under the key that
\* invocation's put or delete event names.
OwnKeysOnly ==
  /\ \A i, j \in Slots : (i # j /\ inv'[i] # inv[i]) => inv'[j] = inv[j]
  /\ \A g \in GroupIds :
       /\ rotations'[g] # rotations[g] =>
            \E i \in Slots : StartsOn(i, {"putRotation", "deleteRotation"}, g)
       /\ teams'[g] # teams[g] =>
            \E i \in Slots : StartsOn(i, {"putTeam", "deleteTeam"}, g)
  /\ \A u \in UserIds :
       users'[u] # users[u] =>
         \E i \in Slots : StartsOn(i, {"putUser", "deleteUser"}, u)

\* C16: invocations are independent. Every step changes the state of one
\* invocation only and writes only the record under the key its own event
\* names; and an invocation that finishes, whatever the others did meanwhile
\* under other identifiers (succeeding, failing or short-circuiting), has the
\* result and the outbound call of a run alone against the records stored
\* under its own event's identifiers.
C16_Independent == [][OwnKeysOnly /\ AsAlone']_vars

\* C16 witness: an updateOnCall for G1 went all the way to Slack while the only
\* other invocation, started after it, wrote or deleted the record of G2 (and
\* nothing under G1 or the event's user), and its outcome is that of a run alone.
C16_Witness ==
  /\ Done(1) /\ IsUpdateOnCall(1)
  /\ inv[1].event.group = "G1"
  /\ inv[1].trace[Len(inv[1].trace)] = "response:ok"
  /\ inv[2].pc = "returned"
  /\ written["G2"] # <<>>
  /\ Undisturbed(1)
  /\ AloneOutcome(inv[1].event, inv[1].trace, inv[1].calls, inv[1].result)

\* ------------------------------------------------------ the order of the steps
\* The place of a backend access among the steps of updateOnCall.
Rank(t) ==
  IF t \in {"getRotation:hit", "getRotation:miss", "getRotation:error",
            "getTeam:hit", "getTeam:miss", "getTeam:error"} THEN 1
  ELSE IF t \in {"getUser:hit", "getUser:miss", "getUser:error"} THEN 2
  ELSE IF t \in {"getSecret:value", "getSecret:absent", "getSecret:error"} THEN 3
  ELSE IF t = "fetch" THEN 4
  ELSE 5

\* The access yielded a value (the request to Slack went out).
Yielded(t) ==
  t \in {"getRotation:hit", "getTeam:hit", "getUser:hit", "getSecret:value", "fetch"}

\* C17: the backend accesses of an updateOnCall invocation come in the order
\* group lookup, user lookup, secret retrieval, request to Slack, and each is
\* made only after every earlier step yielded a value: the secret store is
\* accessed only with the group and the user resolved, and the users table is
\* read only with the group resolved.
C17_StepOrder ==
  \A i \in Slots :
    IsUpdateOnCall(i) =>
      LET t == inv[i].trace
      IN /\ \A k \in 2..Len(t) :
              Rank(t[k - 1]) < Rank(t[k]) /\ Yielded(t[k - 1])
         /\ \A k \in 1..Len(t) :
              /\ Rank(t[k]) = 3 =>
                   /\ t[1] \in {"getRotation:hit", "getTeam:hit"}
                   /\ inv[i].slackUser # Absent
              /\ Rank(t[k]) = 2 => t[1] = "getTeam:hit"

\* ------------------------------------------------- one version of the record
\* Invocation i is between its read of the rotation and its return.
InFlight(i) == inv[i].pc \in {"getSecret", "awaitResponse", "awaitJson"}

\* C18 (combined-record revisions): an updateOnCall reads its rotation once,
\* as the item stored under the group key at that instant; puts and deletes on
\* the group that come later do not change what it holds; and the usergroup
\* and users of its request are the slackUserGroupId and the first matching
\* member's slackUserId of that one record, never a group id of one version
\* with a member id of another.
C18_OneVersion ==
  [][\A i \in Slots :
       variant \in {"index", "rotation"} =>
         /\ (inv[i].pc = "idle" /\ inv'[i].event.operation = "updateOnCall"
               /\ inv'[i].trace = <<"getRotation:hit">>) =>
              LET item == rotations[inv'[i].event.group]
                  rec == inv'[i].record
              IN /\ item # NoItem
                 /\ rec.slackUserGroupId = item.slackUserGroupId.S
                 /\ Len(rec.members) = Len(item.members.L)
                 /\ \A k \in 1..Len(rec.members) :
                      /\ rec.members[k].victorOpsUserId
                           = item.members.L[k].M.victorOpsUserId.S
                      /\ rec.members[k].slackUserId
                           = item.members.L[k].M.slackUserId.S
         /\ (InFlight(i) /\ inv'[i].pc # "returned") =>
              /\ inv'[i].record = inv[i].record
              /\ inv'[i].event = inv[i].event
         /\ inv'[i].calls # <<>> =>
              LET rec == inv'[i].record
                  req == inv'[i].calls[1]
              IN /\ req.usergroup = rec.slackUserGroupId
                 /\ \E k \in 1..Len(rec.members) :
                      /\ FirstMatchAt(rec.members, inv'[i].event.user, k)
                      /\ req.users = rec.members[k].slackUserId]_vars

\* C18 witness: while the first invocation, an updateOnCall, was under way the
\* second one put another record under its group, with another Slack group and
\* another Slack user for the event's user; the request that went out carries
\* the pair of the record read at the start.
C18_Witness ==
  /\ variant = "rotation"
  /\ IsUpdateOnCall(1) /\ inv[1].calls # <<>>
  /\ Len(written[inv[1].event.group]) = 1
  /\ LET new == LastWritten(inv[1].event.group)
         rec == inv[1].record
         req == inv[1].calls[1]
     IN /\ new # NoItem
        /\ new.slackUserGroupId # rec.slackUserGroupId
        /\ \E k \in 1..Len(new.members) :
             /\ FirstMatchAt(new.members, inv[1].event.user, k)
             /\ new.members[k].slackUserId # inv[1].slackUser
        /\ req.usergroup = rec.slackUserGroupId
        /\ req.users = inv[1].slackUser

\* ---------------------------------------------------------- frame conditions
\* This step is one of invocation i, which handles an updateOnCall event.
UpdateOnCallStep(i) ==
  /\ inv'[i] # inv[i]
  /\ \/ inv[i].event.operation = "updateOnCall"
     \/ inv'[i].event.operation = "updateOnCall"

\* C19: no step of an updateOnCall invocation (the lookups, the secret
\* retrieval, the request, Slack's answer or its failure, the return) changes
\* the rotations, teams or users table: whatever the event and the outcome, the
\* tables hold after the invocation what the other invocations left there.
C19_StoreUntouched ==
  [][\A i \in Slots :
       UpdateOnCallStep(i) => UNCHANGED <<rotations, teams, users, written>>]_vars

\* C19 witness: an updateOnCall went all the way to Slack and was accepted;
\* nothing was ever written, and the rotation it read is still stored as read.
C19_Witness ==
  \E i \in Slots :
    /\ Done(i) /\ IsUpdateOnCall(i)
    /\ variant \in {"index", "rotation"}
    /\ inv[i].trace[Len(inv[i].trace)] = "response:ok"
    /\ \A k \in Keys : written[k] = <<>>
    /\ rotations[inv[i].event.group] # NoItem
    /\ UnmarshallRecord(rotations[inv[i].event.group]) = inv[i].record
    /\ slack[inv[i].record.slackUserGroupId] = inv[i].slackUser

\* The operations of the put, get and delete handlers.
CrudOperations ==
  {"putRotation", "getRotation", "deleteRotation", "putTeam", "getTeam",
   "deleteTeam", "putUser", "getUser", "deleteUser"}

\* C20: a put, get or delete invocation makes one store access and nothing
\* else (no secret retrieval, no request to Slack) and leaves every Slack
\* group's membership as it was; a membership changes only in the step in
\* which Slack accepts the request of an updateOnCall invocation, to the member
\* id that request carries.
C20_CrudLeavesSlack ==
  [][/\ \A i \in Slots :
          (inv[i].pc = "idle" /\ inv'[i].event.operation \in CrudOperations) =>
            /\ UNCHANGED <<slack, applied>>
            /\ inv'[i].calls = <<>>
            /\ inv'[i].secret = Absent
            /\ Len(inv'[i].trace) <= 1
            /\ \A k \in 1..Len(inv'[i].trace) :
                 inv'[i].trace[k] \in
                   {"put:ok", "put:error", "get:hit", "get:miss", "get:error",
                    "delete:hit", "delete:miss", "delete:error"}
     /\ (slack' # slack \/ applied' # applied) =>
          \E i \in Slots :
            /\ inv[i].event.operation = "updateOnCall"
            /\ inv[i].pc = "awaitResponse" /\ inv'[i].pc \in {"awaitJson", "done"}
            /\ slack' = [slack EXCEPT ![inv[i].calls[1].usergroup] =
                                        inv[i].calls[1].users]]_vars

\* C20 witness: after an updateOnCall set a Slack group's membership, a
\* deleteRotation removed a stored rotation; the membership is still there.
C20_Witness ==
  \E i \in Slots :
    /\ Done(i) /\ IsDelete(i)
    /\ inv[i].trace = <<"delete:hit">>
    /\ inv[i].calls = <<>>
    /\ \E sg \in SlackGroupIds :
         /\ slack[sg] \in SlackUserIds
         /\ applied[sg] = <<slack[sg]>>

====
